---- MODULE Spec2Model ----
(***************************************************************************)
(* BeatBoard: the Spotify authentication service (OAuth 2.0 Authorization  *)
(* Code Flow with PKCE) and its two revisions:                             *)
(*   "sk"  src/src/services/spotifyAuth.ts  verifier keyed by the state    *)
(*         parameter (spotify_cv_<Date.now()>), written to localStorage    *)
(*         and sessionStorage, no expiry buffer;                           *)
(*   "fk"  src/unnamed/part_000  verifier under the fixed key              *)
(*         spotify_code_verifier in sessionStorage, 60 s expiry buffer.    *)
(* Browser storage is a map from key strings to stored values, the clock   *)
(* is Date.now(), asynchronous methods are split at their awaits.  The     *)
(* state parameter of the callback URL is an input of handleCallback; the  *)
(* calls suspended in one page all see the same URL.                       *)
(* Spec is the service driven by any caller.  UiSpec is the state-keyed    *)
(* service driven through the components that call it: App, LoginScreen    *)
(* and AuthCallback, whose view and configuration are held in ui.          *)
(* VerifierSpec is generateCodeVerifier applied to the bytes in array.     *)
(* ConcSpec is the service called by two consumers at once: consumers is   *)
(* the number of calls the page may have suspended at an await.            *)
(* ApiSpec is SpotifyApiService.makeRequest over the service, CallbackSpec *)
(* a mount of AuthCallback with its timeouts and onAuthComplete, AppSpec   *)
(* the loads and searches of useAppState driven by SearchBar, AudioSpec    *)
(* useAudioPlayer with its play() promises.                                *)
(***************************************************************************)
EXTENDS Bags, FiniteSets, Integers, Sequences, TLC

VARIABLES svc, clock, ls, ss, inflight, inits, last, ui, array, consumers,
          api, callback, app, player

vars == <<svc, clock, ls, ss, inflight, inits, last, ui, array, consumers,
          api, callback, app, player>>

(* ---------------- bounds ---------------- *)
MaxClock == 1          \* the clock runs over 0..MaxClock minutes
MaxCalls == 1          \* asynchronous calls suspended at an await at a time
                       \* where the page has one consumer of the service
MaxInits == 2          \* initiateAuth calls per behaviour

(* ---------------- values ---------------- *)
AccessTokens  == {"AT1", "AT2"}
NoRefresh     == ""                       \* refresh_token absent (falsy)
RefreshTokens == {NoRefresh, "RT1", "RT2"}
ExpiresIn     == {60, 120}              \* expires_in of a response, seconds

STORAGE_KEY       == "spotify_tokens"
CODE_VERIFIER_KEY == "spotify_code_verifier"
CV_PREFIX         == "spotify_cv_"

\* Date.now(), in milliseconds, at minute c of the clock
Now(c) == c * 60000

\* `spotify_cv_${Date.now()}`
\* the key taken from a clock too coarse to tell two attempts apart
cvKey_coarse(c) == CV_PREFIX \o ToString(Now(c) \div 100000)
cvKey(c) == CV_PREFIX \o ToString(Now(c))

\* key.startsWith(prefix)
startsWith(key, prefix) ==
    /\ Len(key) >= Len(prefix)
    /\ SubSeq(key, 1, Len(prefix)) = prefix

Keys == {STORAGE_KEY, CODE_VERIFIER_KEY} \cup {cvKey(c) : c \in 0..MaxClock}

\* stored values: every value of the Storage API is a string; the tag tells
\* what the string is
Absent      == [t |-> "absent"]                    \* getItem gives null
Garbage     == [t |-> "garbage"]                   \* a string JSON.parse rejects
VerifierStr(n) == [t |-> "verifier", v |-> n]      \* the verifier of attempt n

\* the safety buffer subtracted from expires_in, seconds
Buffer(s) == IF s = "fk" THEN 60 ELSE 0

\* storeTokens subtracting the buffer as milliseconds rather than seconds
storeTokens_bufferInMs(s, tokens, c) ==
    [t            |-> "tokens",
     accessToken  |-> tokens.access_token,
     refreshToken |-> tokens.refresh_token,
     expiresAt    |-> Now(c) + tokens.expires_in * 1000 - Buffer(s)]

\* storeTokens with the access token taken from the wrong field
storeTokens_wrongField(s, tokens, c) ==
    [t            |-> "tokens",
     accessToken  |-> tokens.refresh_token,
     refreshToken |-> tokens.refresh_token,
     expiresAt    |-> Now(c) + (tokens.expires_in - Buffer(s)) * 1000]

\* storeTokens: the StoredTokens object that is serialised
storeTokens(s, tokens, c) ==
    [t            |-> "tokens",
     accessToken  |-> tokens.access_token,
     refreshToken |-> tokens.refresh_token,
     expiresAt    |-> Now(c) + (tokens.expires_in - Buffer(s)) * 1000]

\* getStoredTokens: "null", "throw" (JSON.parse failed) or the parsed record.
\* A verifier string is not JSON either.
ParseNull  == [t |-> "null"]
ParseThrow == [t |-> "throw"]
parseStored(val) ==
    IF val.t = "absent" THEN ParseNull
    ELSE IF val.t = "tokens" THEN val
    ELSE ParseThrow

\* logout that clears the verifier markers but leaves the token record
logoutLs_keepTokens(s, l) ==
    [k \in Keys |->
        IF s = "sk" /\ startsWith(k, CV_PREFIX) THEN Absent ELSE l[k]]

\* logout: what it leaves in localStorage
logoutLs(s, l) ==
    [k \in Keys |->
        IF k = STORAGE_KEY THEN Absent
        ELSE IF s = "sk" /\ startsWith(k, CV_PREFIX) THEN Absent
        ELSE l[k]]

\* logout that cleans localStorage only
logoutSs_untouched(s, m) == m

\* logout: what it leaves in sessionStorage
logoutSs(s, m) ==
    [k \in Keys |->
        IF s = "sk" /\ startsWith(k, CV_PREFIX) THEN Absent
        ELSE IF s = "fk" /\ k = CODE_VERIFIER_KEY THEN Absent
        ELSE m[k]]

\* getStoredTokens in the fixed-key revision logs out when parsing fails
lsAfterRead(s, l) ==
    IF s = "fk" /\ parseStored(l[STORAGE_KEY]) = ParseThrow
    THEN logoutLs(s, l) ELSE l

ssAfterRead(s, l, m) ==
    IF s = "fk" /\ parseStored(l[STORAGE_KEY]) = ParseThrow
    THEN logoutSs(s, m) ELSE m

\* getStoredTokens: the value returned (null when parsing fails)
getStoredTokens(l) ==
    IF parseStored(l[STORAGE_KEY]) = ParseThrow THEN ParseNull
    ELSE parseStored(l[STORAGE_KEY])

\* isAuthenticated comparing with >= instead of >
isAuthenticated_ge(l, c) ==
    /\ parseStored(l[STORAGE_KEY]).t = "tokens"
    /\ parseStored(l[STORAGE_KEY]).expiresAt >= Now(c)

\* isAuthenticated: tokens !== null && tokens.expiresAt > Date.now()
isAuthenticated(l, c) ==
    /\ getStoredTokens(l) # ParseNull
    /\ getStoredTokens(l).expiresAt > Now(c)

(* ---------------- steps ---------------- *)
\* the step just taken: the method, what it returned ("pending": suspended at
\* an await), the failure it met, for logout whether the session was
\* authenticated when it ran, and for a step that handles a response the
\* response and the refresh token the request carried
NoResp == [kind |-> "none", access_token |-> "", expires_in |-> 0, refresh_token |-> ""]
StepOf(op, ret, fault, was, resp, rt) ==
    [op |-> op, ret |-> ret, fault |-> fault, was |-> was, resp |-> resp, rt |-> rt]
Step(op, ret) == StepOf(op, ret, "", "", NoResp, "")

\* a step of the environment: the clock, the browser
Env == Step("env", "void")

BoolStr(b) == IF b THEN "true" ELSE "false"

\* the configuration of a build: which of the required variables are set
\* (REDIRECT_URI has a default and is never missing)
Configs == [CLIENT_ID : BOOLEAN, CLIENT_SECRET : BOOLEAN]

\* validateSpotifyConfig: none of the required variables is missing
validateSpotifyConfig(cfg) == cfg.CLIENT_ID /\ cfg.CLIENT_SECRET

\* what the browser shows: the configuration of the build, the page ("login":
\* LoginScreen, "gallery": the application, "callback": AuthCallback,
\* "provider": the authorization endpoint), AuthCallback's status and the
\* query string of the callback URL (code and error present or not, state)
Ui(cfg, page, status, code, error, state) ==
    [config |-> cfg, page |-> page, status |-> status,
     code |-> code, error |-> error, state |-> state]

\* the service called without the components
NoUi == Ui([CLIENT_ID |-> TRUE, CLIENT_SECRET |-> TRUE], "none", "idle", FALSE, FALSE, "")

\* SpotifyApiService.makeRequest not called: no request sent, nothing thrown
NoApi == [phase |-> "idle", bearer |-> "", error |-> ""]

\* AuthCallback not mounted: no effect has run, no timeout is pending,
\* onAuthComplete was not called
NoCallback == [effects |-> 0, timers |-> EmptyBag, returns |-> <<>>, calls |-> <<>>]

\* useAppState as useState initialises it (the fields the loads write) and
\* the query of SearchBar; no load or search was started (started counts
\* them, pending holds those in flight, latest is what the one started last
\* came back with)
NoApp == [isLoadingSongs |-> FALSE, songs |-> "[]", searchQuery |-> "",
          error |-> "", query |-> "", started |-> 0, pending |-> {},
          latest |-> "none"]

\* useAudioPlayer as useState initialises it; audio.src is not set, no
\* play() promise is pending (plays), playSong was not called (calls), no
\* song was started (started)
NoPlayer == [currentSong |-> "null", isPlaying |-> FALSE, src |-> "",
             plays |-> {}, calls |-> 0, started |-> 0]

Init ==
    /\ svc \in {"sk", "fk"}
    /\ clock = 0
    /\ ls \in {[k \in Keys |-> IF k = STORAGE_KEY THEN v ELSE Absent] : v \in {Absent, Garbage}}
    /\ ss = [k \in Keys |-> Absent]
    /\ inflight = EmptyBag
    /\ inits = 0
    /\ last = Env
    /\ ui = NoUi
    /\ array = <<>>
    /\ consumers = MaxCalls
    /\ api = NoApi
    /\ callback = NoCallback
    /\ app = NoApp
    /\ player = NoPlayer

\* the clock advances
Tick ==
    /\ clock < MaxClock
    /\ clock' = clock + 1
    /\ last' = Env
    /\ UNCHANGED <<svc, ls, ss, inflight, inits>>

\* the browser loads a page of the application: a new execution context,
\* storage is all that survives
PageLoad ==
    /\ inflight' = EmptyBag
    /\ last' = Env
    /\ UNCHANGED <<svc, clock, ls, ss, inits>>

\* isAuthenticated()
IsAuthenticated ==
    /\ last' = Step("isAuthenticated", BoolStr(isAuthenticated(ls, clock)))
    /\ ls' = lsAfterRead(svc, ls)
    /\ ss' = ssAfterRead(svc, ls, ss)
    /\ UNCHANGED <<svc, clock, inflight, inits>>

\* logout()
Logout ==
    /\ ls' = logoutLs(svc, ls)
    /\ ss' = logoutSs(svc, ss)
    /\ last' = StepOf("logout", "void", "", BoolStr(isAuthenticated(ls, clock)), NoResp, "")
    /\ UNCHANGED <<svc, clock, inflight, inits>>

(* ---------------- asynchronous calls ---------------- *)
\* a call suspended at an await: the verifier it holds (initiateAuth: the one
\* generated, handleCallback: the one sent as code_verifier), the refresh
\* token it sent and the state parameter it read from the URL
Call(op, v, rt, u) == [op |-> op, v |-> v, rt |-> rt, u |-> u]

\* the code_verifier a suspended handleCallback holds is not used after the
\* request was sent: of a string that is no verifier only the kind is kept
Held(val) == IF val.t = "verifier" THEN val ELSE [t |-> val.t]

\* a request shared with the identical one already in flight
Suspend_coalesced(c) ==
    inflight' = IF BagIn(c, inflight) THEN inflight ELSE inflight (+) SetToBag({c})

Suspend(c) == inflight' = inflight (+) SetToBag({c})
\* the handler of a response sending the request once more
Resume_resent(c) == inflight' = inflight

Resume(c)  == inflight' = inflight (-) SetToBag({c})
CanSuspend == BagCardinality(inflight) < consumers
InFlight   == BagToSet(inflight)

\* localStorage.setItem / sessionStorage.setItem; fail: the call throws
\* (QuotaExceededError) and the storage is left as it was
setItem(store, k, val, fail) ==
    IF fail THEN store ELSE [store EXCEPT ![k] = val]

\* removeItem(k); a null or empty key names nothing
removeItem(store, k) ==
    IF k \in Keys THEN [store EXCEPT ![k] = Absent] ELSE store

\* getItem that yields a string where the key is missing
getItem_neverNull(store, k) ==
    IF k \in Keys /\ store[k] # Absent THEN store[k] ELSE Garbage

\* getItem(k): null (Absent) when there is no such key
getItem(store, k) ==
    IF k \in Keys THEN store[k] ELSE Absent

\* the token endpoint answers: the request is rejected, a non-2xx status, a
\* body that is no JSON, or a token response
Fetched(val) == val.t = "verifier"
TokenResponses ==
    {[kind |-> k, access_token |-> "", expires_in |-> 0, refresh_token |-> NoRefresh] :
        k \in {"reject", "http400", "badjson"}}
    \cup
    {[kind |-> "ok", access_token |-> a, expires_in |-> e, refresh_token |-> r] :
        a \in AccessTokens, e \in ExpiresIn, r \in RefreshTokens}

\* what can happen when a response is handled, <<response, the write of
\* storeTokens throws>>: storeTokens is reached only on a token response, and
\* when its write throws nothing of the response is kept
OkResponse == CHOOSE r \in TokenResponses : r.kind = "ok"
Outcomes == {<<r, FALSE>> : r \in TokenResponses} \cup {<<OkResponse, TRUE>>}

\* the state parameters a callback URL carries ("": none)
States == {"", STORAGE_KEY} \cup {cvKey(c) : c \in 0..MaxClock}

(* ---- initiateAuth, state-keyed revision ---- *)
\* how an initiateAuth goes on after the await: the digest is there and
\* each of the two writes throws or not, or the digest primitive failed
InitiateOutcomes == {<<TRUE, lf, sf>> : lf, sf \in BOOLEAN} \cup {<<FALSE, FALSE, FALSE>>}

\* initiateAuth dropping the token record before it stores the marker
initiateAuthLs_fresh(l, c, val, fail) ==
    setItem(removeItem(l, STORAGE_KEY), cvKey(c), val, fail)

\* the markers initiateAuth leaves in localStorage and sessionStorage
initiateAuthLs(l, c, val, fail) == setItem(l, cvKey(c), val, fail)
initiateAuthSs(m, c, val, fail) == setItem(m, cvKey(c), val, fail)

\* nothing shared is read or written before the await of
\* generateCodeChallenge: the call is one step, taken when the digest is
\* there (or the digest primitive failed)
initiateAuth(digestOk, lsFail, ssFail) ==
    /\ svc = "sk"
    /\ inits < MaxInits
    /\ inits' = inits + 1
    /\ IF digestOk
       THEN /\ ls' = initiateAuthLs(ls, clock, VerifierStr(inits + 1), lsFail)
            /\ ss' = initiateAuthSs(ss, clock, VerifierStr(inits + 1), ssFail)
            /\ last' = Step("initiateAuth", "void")
       ELSE /\ last' = StepOf("initiateAuth", "rejected", "digest", "", NoResp, "")
            /\ UNCHANGED <<ls, ss>>
    /\ UNCHANGED <<svc, clock, inflight>>

(* ---- initiateAuth, fixed-key revision ---- *)
\* logout(), then up to the await of generateCodeChallenge
initiateAuthStartFk ==
    /\ svc = "fk"
    /\ inits < MaxInits
    /\ CanSuspend
    /\ inits' = inits + 1
    /\ ls' = logoutLs(svc, ls)
    /\ ss' = logoutSs(svc, ss)
    /\ Suspend(Call("initiateAuth", VerifierStr(inits + 1), "", ""))
    /\ last' = Step("initiateAuth", "pending")
    /\ UNCHANGED <<svc, clock>>

\* after the await; a failure is caught and rethrown
initiateAuthResumeFk(c, digestOk, ssFail) ==
    /\ svc = "fk"
    /\ c.op = "initiateAuth"
    /\ Resume(c)
    /\ IF digestOk /\ ~ssFail
       THEN /\ ss' = setItem(ss, CODE_VERIFIER_KEY, c.v, FALSE)
            /\ last' = Step("initiateAuth", "void")
       ELSE /\ last' = StepOf("initiateAuth", "rejected",
                              IF digestOk THEN "write" ELSE "digest", "", NoResp, "")
            /\ UNCHANGED ss
    /\ UNCHANGED <<svc, clock, ls, inits>>

(* ---- handleCallback, state-keyed revision ---- *)
\* the verifier lookup: localStorage first, sessionStorage as backup
lookupVerifier(l, m, state) ==
    IF getItem(l, state) # Absent THEN getItem(l, state) ELSE getItem(m, state)

\* handleCallback with storeTokens outside the try block
handleCallbackCatch_writeEscapes(fault) ==
    IF fault = "write" THEN "rejected" ELSE "false"

\* the catch block of handleCallback: whatever was thrown, false is returned
handleCallbackCatch(fault) == "false"

\* what went wrong with a response, "" when nothing did
responseFault(resp, wfail) ==
    IF resp.kind = "reject" THEN "network"
    ELSE IF resp.kind = "http400" THEN "status"
    ELSE IF resp.kind = "badjson" THEN "body"
    ELSE IF wfail THEN "write" ELSE ""

\* up to the await of fetch, or to the return of false; state is the state
\* parameter of window.location.search
handleCallbackStart(state) ==
    /\ svc = "sk"
    /\ \A d \in InFlight : d.op = "handleCallback" => d.u = state
    /\ IF state = "" \/ lookupVerifier(ls, ss, state) = Absent
       THEN \* throw, caught: clean up, return false
            /\ ls' = removeItem(ls, state)
            /\ ss' = removeItem(ss, state)
            /\ last' = StepOf("handleCallback",
                              handleCallbackCatch(IF state = "" THEN "state" ELSE "verifier"),
                              IF state = "" THEN "state" ELSE "verifier", "", NoResp, "")
            /\ UNCHANGED inflight
       ELSE /\ CanSuspend
            /\ Suspend(Call("handleCallback", Held(lookupVerifier(ls, ss, state)), "", state))
            /\ last' = Step("handleCallback", "pending")
            /\ UNCHANGED <<ls, ss>>
    /\ UNCHANGED <<svc, clock, inits>>

\* handleCallback without the response.ok check
exchangeStored_noStatusCheck(resp, wfail) ==
    resp.kind \in {"ok", "http400"} /\ ~wfail

\* handleCallback swallowing a failed storeTokens
exchangeStored_writeIgnored(resp, wfail) == resp.kind = "ok"

\* handleCallback returns true: a 2xx response whose body parsed, and
\* storeTokens did not throw
exchangeStored(resp, wfail) == responseFault(resp, wfail) = ""

\* the response of the token endpoint arrives (or the request is rejected)
handleCallbackResponse(c, resp, wfail) ==
    /\ svc = "sk"
    /\ c.op = "handleCallback"
    /\ resp.kind = "ok" => Fetched(c.v)
    /\ Resume(c)
    /\ IF exchangeStored(resp, wfail)
       THEN /\ ls' = removeItem(setItem(ls, STORAGE_KEY, storeTokens(svc, resp, clock), wfail), c.u)
            /\ ss' = removeItem(ss, c.u)
            /\ last' = StepOf("handleCallback", "true", "", "", resp, "")
       ELSE /\ ls' = removeItem(ls, c.u)
            /\ ss' = removeItem(ss, c.u)
            /\ last' = StepOf("handleCallback",
                              handleCallbackCatch(responseFault(resp, wfail)),
                              responseFault(resp, wfail), "", resp, "")
    /\ UNCHANGED <<svc, clock, inits>>

(* ---- handleCallback, fixed-key revision ---- *)
handleCallbackStartFk ==
    /\ svc = "fk"
    /\ IF getItem(ss, CODE_VERIFIER_KEY) = Absent
       THEN /\ ss' = removeItem(ss, CODE_VERIFIER_KEY)
            /\ last' = StepOf("handleCallback", handleCallbackCatch("verifier"),
                              "verifier", "", NoResp, "")
            /\ UNCHANGED inflight
       ELSE /\ CanSuspend
            /\ Suspend(Call("handleCallback", getItem(ss, CODE_VERIFIER_KEY), "", ""))
            /\ last' = Step("handleCallback", "pending")
            /\ UNCHANGED ss
    /\ UNCHANGED <<svc, clock, ls, inits>>

handleCallbackResponseFk(c, resp, wfail) ==
    /\ svc = "fk"
    /\ c.op = "handleCallback"
    /\ resp.kind = "ok" => Fetched(c.v)
    /\ Resume(c)
    /\ IF exchangeStored(resp, wfail)
       THEN /\ ls' = setItem(ls, STORAGE_KEY, storeTokens(svc, resp, clock), wfail)
            /\ last' = StepOf("handleCallback", "true", "", "", resp, "")
       ELSE /\ last' = StepOf("handleCallback",
                              handleCallbackCatch(responseFault(resp, wfail)),
                              responseFault(resp, wfail), "", resp, "")
            /\ UNCHANGED ls
    /\ ss' = removeItem(ss, CODE_VERIFIER_KEY)
    /\ UNCHANGED <<svc, clock, inits>>

(* ---- getAccessToken and refreshAccessToken, both revisions ---- *)
\* getAccessToken applying a 60 s margin when it reads the record
tokenValid_margin(tokens, c) == tokens.expiresAt > Now(c) + 60000

\* the token is still valid
tokenValid(tokens, c) == tokens.expiresAt > Now(c)

\* up to the await of fetch in refreshAccessToken, or to the return
getAccessTokenStart ==
    LET tokens == getStoredTokens(ls) IN
    /\ IF tokens = ParseNull
       THEN /\ ls' = lsAfterRead(svc, ls)
            /\ ss' = ssAfterRead(svc, ls, ss)
            /\ last' = Step("getAccessToken", "null")
            /\ UNCHANGED inflight
       ELSE IF tokenValid(tokens, clock)
       THEN /\ last' = Step("getAccessToken", tokens.accessToken)
            /\ UNCHANGED <<ls, ss, inflight>>
       ELSE IF tokens.refreshToken # NoRefresh
       THEN /\ CanSuspend
            /\ Suspend(Call("getAccessToken", Absent, tokens.refreshToken, ""))
            /\ last' = Step("getAccessToken", "pending")
            /\ UNCHANGED <<ls, ss>>
       ELSE \* no refresh token: the fixed-key revision logs out
            /\ ls' = IF svc = "fk" THEN logoutLs(svc, ls) ELSE ls
            /\ ss' = IF svc = "fk" THEN logoutSs(svc, ss) ELSE ss
            /\ last' = StepOf("getAccessToken", "null", "norefresh", "", NoResp, "")
            /\ UNCHANGED inflight
    /\ UNCHANGED <<svc, clock, inits>>

\* refreshAccessToken storing the response as it came
refreshedTokens_asReceived(resp, refreshToken) == resp

\* the response handed to storeTokens by refreshAccessToken:
\* refresh_token: tokens.refresh_token || refreshToken
refreshedTokens(resp, refreshToken) ==
    [resp EXCEPT !.refresh_token =
        IF resp.refresh_token # NoRefresh THEN resp.refresh_token ELSE refreshToken]

\* refreshAccessToken without the response.ok check
refreshStored_noStatusCheck(resp, wfail) ==
    resp.kind \in {"ok", "http400"} /\ ~wfail

\* refreshAccessToken returns the token: a 2xx response whose body parsed,
\* and storeTokens did not throw
refreshStored(resp, wfail) == responseFault(resp, wfail) = ""

\* the response to the refresh request arrives (or the request is rejected)
refreshAccessTokenResponse(c, resp, wfail) ==
    /\ c.op = "getAccessToken"
    /\ Resume(c)
    /\ IF refreshStored(resp, wfail)
       THEN /\ ls' = setItem(ls, STORAGE_KEY,
                             storeTokens(svc, refreshedTokens(resp, c.rt), clock), wfail)
            /\ last' = StepOf("getAccessToken", resp.access_token, "", "", resp, c.rt)
            /\ UNCHANGED ss
       ELSE \* caught: logout, return null
            /\ ls' = logoutLs(svc, ls)
            /\ ss' = logoutSs(svc, ss)
            /\ last' = StepOf("getAccessToken", "null", responseFault(resp, wfail), "", resp, c.rt)
    /\ UNCHANGED <<svc, clock, inits>>

Next ==
    \/ Tick /\ UNCHANGED <<ui, array, consumers, api, callback, app, player>>
    \/ PageLoad /\ UNCHANGED <<ui, array, consumers, api, callback, app, player>>
    \/ IsAuthenticated /\ UNCHANGED <<ui, array, consumers, api, callback, app, player>>
    \/ Logout /\ UNCHANGED <<ui, array, consumers, api, callback, app, player>>
    \/ \E o \in InitiateOutcomes : initiateAuth(o[1], o[2], o[3]) /\ UNCHANGED <<ui, array, consumers, api, callback, app, player>>
    \/ initiateAuthStartFk /\ UNCHANGED <<ui, array, consumers, api, callback, app, player>>
    \/ \E c \in InFlight, d, sf \in BOOLEAN : initiateAuthResumeFk(c, d, sf) /\ UNCHANGED <<ui, array, consumers, api, callback, app, player>>
    \/ \E u \in States : handleCallbackStart(u) /\ UNCHANGED <<ui, array, consumers, api, callback, app, player>>
    \/ \E c \in InFlight, o \in Outcomes : handleCallbackResponse(c, o[1], o[2]) /\ UNCHANGED <<ui, array, consumers, api, callback, app, player>>
    \/ handleCallbackStartFk /\ UNCHANGED <<ui, array, consumers, api, callback, app, player>>
    \/ \E c \in InFlight, o \in Outcomes : handleCallbackResponseFk(c, o[1], o[2]) /\ UNCHANGED <<ui, array, consumers, api, callback, app, player>>
    \/ getAccessTokenStart /\ UNCHANGED <<ui, array, consumers, api, callback, app, player>>
    \/ \E c \in InFlight, o \in Outcomes : refreshAccessTokenResponse(c, o[1], o[2]) /\ UNCHANGED <<ui, array, consumers, api, callback, app, player>>

Spec == Init /\ [][Next]_vars

(* ---------------- the components ---------------- *)
UiInit ==
    /\ svc = "sk"
    /\ clock = 0
    /\ ls = [k \in Keys |-> Absent]
    /\ ss = [k \in Keys |-> Absent]
    /\ inflight = EmptyBag
    /\ inits = 0
    /\ last = Env
    /\ ui \in {Ui(cfg, "login", "idle", FALSE, FALSE, "") : cfg \in Configs}
    /\ array = <<>>
    /\ consumers = MaxCalls
    /\ api = NoApi
    /\ callback = NoCallback
    /\ app = NoApp
    /\ player = NoPlayer

\* the browser loads "/": App's checkAuth shows LoginScreen unless
\* isAuthenticated()
LoadApp ==
    /\ PageLoad
    /\ ui' = Ui(ui.config,
                IF isAuthenticated(ls, clock) THEN "gallery" ELSE "login",
                "idle", FALSE, FALSE, "")

\* the browser loads "/callback" with some query string: AuthCallback is
\* mounted with status "loading"
LoadCallback(code, error, state) ==
    /\ PageLoad
    /\ ui' = Ui(ui.config, "callback", "loading", code, error, state)

\* AuthCallback's effect calling handleCallback whenever there is a code
callsHandleCallback_codeOnly(code, error) == code

\* AuthCallback's effect reaches spotifyAuth.handleCallback: no error
\* parameter, and a code
callsHandleCallback(code, error) == ~error /\ code

\* AuthCallback's effect, up to its await
AuthCallbackEffect ==
    /\ ui.page = "callback"
    /\ ui.status = "loading"
    /\ InFlight = {}
    /\ IF callsHandleCallback(ui.code, ui.error)
       THEN /\ handleCallbackStart(ui.state)
            /\ ui' = [ui EXCEPT !.status = IF last'.ret = "false" THEN "error" ELSE @]
       ELSE /\ last' = Step("AuthCallback", "error")
            /\ ui' = [ui EXCEPT !.status = "error"]
            /\ UNCHANGED <<svc, clock, ls, ss, inflight, inits>>

\* AuthCallback's effect after its await
AuthCallbackResume(c, resp, wfail) ==
    /\ ui.page = "callback"
    /\ handleCallbackResponse(c, resp, wfail)
    /\ ui' = [ui EXCEPT !.status = IF last'.ret = "true" THEN "success" ELSE "error"]

\* the page after a call of initiateAuth: the authorization endpoint once
\* window.location.href is assigned, else the page as it was
afterInitiateAuth(u, ret) ==
    IF ret = "void" THEN Ui(u.config, "provider", "idle", FALSE, FALSE, "") ELSE u

\* the Retry Login button of AuthCallback's error view
RetryLogin(digestOk, lsFail, ssFail) ==
    /\ ui.page = "callback"
    /\ ui.status = "error"
    /\ initiateAuth(digestOk, lsFail, ssFail)
    /\ ui' = afterInitiateAuth(ui, last'.ret)

\* LoginScreen's handleLogin
handleLogin(digestOk, lsFail, ssFail) ==
    /\ ui.page = "login"
    /\ IF validateSpotifyConfig(ui.config)
       THEN /\ initiateAuth(digestOk, lsFail, ssFail)
            /\ ui' = afterInitiateAuth(ui, last'.ret)
       ELSE /\ last' = Step("handleLogin", "setupHelp")
            /\ ui' = [ui EXCEPT !.status = "setupHelp"]
            /\ UNCHANGED <<svc, clock, ls, ss, inflight, inits>>

UiNext ==
    \/ Tick /\ UNCHANGED <<ui, array, consumers, api, callback, app, player>>
    \/ LoadApp /\ UNCHANGED <<array, consumers, api, callback, app, player>>
    \/ \E code, error \in BOOLEAN, state \in States : LoadCallback(code, error, state) /\ UNCHANGED <<array, consumers, api, callback, app, player>>
    \/ AuthCallbackEffect /\ UNCHANGED <<array, consumers, api, callback, app, player>>
    \/ \E c \in InFlight, o \in Outcomes : AuthCallbackResume(c, o[1], o[2]) /\ UNCHANGED <<array, consumers, api, callback, app, player>>
    \/ \E o \in InitiateOutcomes : RetryLogin(o[1], o[2], o[3]) /\ UNCHANGED <<array, consumers, api, callback, app, player>>
    \/ \E o \in InitiateOutcomes : handleLogin(o[1], o[2], o[3]) /\ UNCHANGED <<array, consumers, api, callback, app, player>>

UiSpec == UiInit /\ [][UiNext]_vars

(* ---------------- the code verifier ---------------- *)
\* new Uint8Array(32)
VerifierBytes == 32

\* the alphabet of btoa, sextet 0 first
Base64Chars ==
    <<"A", "B", "C", "D", "E", "F", "G", "H", "I", "J", "K", "L", "M",
      "N", "O", "P", "Q", "R", "S", "T", "U", "V", "W", "X", "Y", "Z",
      "a", "b", "c", "d", "e", "f", "g", "h", "i", "j", "k", "l", "m",
      "n", "o", "p", "q", "r", "s", "t", "u", "v", "w", "x", "y", "z",
      "0", "1", "2", "3", "4", "5", "6", "7", "8", "9", "+", "/">>

\* the character of a sextet
b64(n) == Base64Chars[n + 1]

\* btoa(String.fromCharCode(...bytes)): three bytes give four characters,
\* the last one or two bytes are padded with "="
RECURSIVE btoa(_)
btoa(bytes) ==
    IF Len(bytes) = 0 THEN <<>>
    ELSE IF Len(bytes) = 1
    THEN LET n == bytes[1] * 16
         IN  <<b64(n \div 64), b64(n % 64), "=", "=">>
    ELSE IF Len(bytes) = 2
    THEN LET n == (bytes[1] * 256 + bytes[2]) * 4
         IN  <<b64(n \div 4096), b64((n \div 64) % 64), b64(n % 64), "=">>
    ELSE LET n == bytes[1] * 65536 + bytes[2] * 256 + bytes[3]
         IN  <<b64(n \div 262144), b64((n \div 4096) % 64),
               b64((n \div 64) % 64), b64(n % 64)>>
             \o btoa(SubSeq(bytes, 4, Len(bytes)))

\* String.prototype.replace with a global pattern of one character; an empty
\* replacement removes the character
RECURSIVE replace(_, _, _)
replace(str, from, to) ==
    IF Len(str) = 0 THEN <<>>
    ELSE (IF Head(str) # from THEN <<Head(str)>>
          ELSE IF to = "" THEN <<>> ELSE <<to>>)
         \o replace(Tail(str), from, to)

\* generateCodeVerifier that leaves the padding in place
generateCodeVerifier_padded(bytes) ==
    replace(replace(btoa(bytes), "+", "-"), "/", "_")

\* generateCodeVerifier, from the bytes crypto.getRandomValues wrote: the
\* string as the sequence of its characters
generateCodeVerifier(bytes) ==
    replace(replace(replace(btoa(bytes), "+", "-"), "/", "_"), "=", "")

\* bytes crypto.getRandomValues may write: all bits clear, all bits set,
\* bytes whose groups give the sextets 62 and 63, and ordinary ones
RandomBytes == {0, 65, 190, 239, 251, 255}

\* crypto.getRandomValues has filled the array: any three of these bytes,
\* repeated over its length
VerifierInit ==
    /\ svc \in {"sk", "fk"}
    /\ clock = 0
    /\ ls = [k \in Keys |-> Absent]
    /\ ss = [k \in Keys |-> Absent]
    /\ inflight = EmptyBag
    /\ inits = 0
    /\ last = Env
    /\ ui = NoUi
    /\ consumers = MaxCalls
    /\ api = NoApi
    /\ callback = NoCallback
    /\ app = NoApp
    /\ player = NoPlayer
    /\ array \in {[i \in 1..VerifierBytes |-> g[((i - 1) % 3) + 1]] :
                     g \in [1..3 -> RandomBytes]}

\* generateCodeVerifier() returns
GenerateCodeVerifier ==
    /\ last.op = "env"
    /\ last' = Step("generateCodeVerifier", generateCodeVerifier(array))
    /\ UNCHANGED <<svc, clock, ls, ss, inflight, inits, ui, array, consumers,
                   api, callback, app, player>>

VerifierNext == GenerateCodeVerifier

VerifierSpec == VerifierInit /\ [][VerifierNext]_vars

(* ---------------- two consumers ---------------- *)
\* callers of one method the page runs at once: React.StrictMode runs
\* AuthCallback's effect twice, the player asks for the access token from
\* initializePlayer and from getOAuthToken
Consumers == 2

ConcInit ==
    /\ svc \in {"sk", "fk"}
    /\ clock = 0
    /\ ls = [k \in Keys |-> Absent]
    /\ ss = [k \in Keys |-> Absent]
    /\ inflight = EmptyBag
    /\ inits = 0
    /\ last = Env
    /\ ui = NoUi
    /\ array = <<>>
    /\ consumers = Consumers
    /\ api = NoApi
    /\ callback = NoCallback
    /\ app = NoApp
    /\ player = NoPlayer

ConcNext ==
    \/ Tick /\ UNCHANGED <<ui, array, consumers, api, callback, app, player>>
    \/ Logout /\ UNCHANGED <<ui, array, consumers, api, callback, app, player>>
    \/ \E o \in InitiateOutcomes : initiateAuth(o[1], o[2], o[3]) /\ UNCHANGED <<ui, array, consumers, api, callback, app, player>>
    \/ initiateAuthStartFk /\ UNCHANGED <<ui, array, consumers, api, callback, app, player>>
    \/ \E c \in InFlight, d, sf \in BOOLEAN : initiateAuthResumeFk(c, d, sf) /\ UNCHANGED <<ui, array, consumers, api, callback, app, player>>
    \/ \E u \in States : handleCallbackStart(u) /\ UNCHANGED <<ui, array, consumers, api, callback, app, player>>
    \/ \E c \in InFlight, o \in Outcomes : handleCallbackResponse(c, o[1], o[2]) /\ UNCHANGED <<ui, array, consumers, api, callback, app, player>>
    \/ handleCallbackStartFk /\ UNCHANGED <<ui, array, consumers, api, callback, app, player>>
    \/ \E c \in InFlight, o \in Outcomes : handleCallbackResponseFk(c, o[1], o[2]) /\ UNCHANGED <<ui, array, consumers, api, callback, app, player>>
    \/ getAccessTokenStart /\ UNCHANGED <<ui, array, consumers, api, callback, app, player>>
    \/ \E c \in InFlight, o \in Outcomes : refreshAccessTokenResponse(c, o[1], o[2]) /\ UNCHANGED <<ui, array, consumers, api, callback, app, player>>

ConcSpec == ConcInit /\ [][ConcNext]_vars

(* ---------------- the Web API client ---------------- *)
\* how the Web API answers a request: a 2xx response, 401, another status,
\* or fetch rejects
ApiAnswers == {"ok", "401", "http500", "reject"}

\* makeRequest sending the request whatever getAccessToken returned
afterToken_unchecked(tok) == [phase |-> "sent", bearer |-> tok, error |-> ""]

\* makeRequest once getAccessToken has returned: without a token it throws,
\* with one it sends the request, Authorization: Bearer <token>
afterToken(tok) ==
    IF tok = "null"
    THEN [phase |-> "thrown", bearer |-> "", error |-> "No valid access token available"]
    ELSE [phase |-> "sent", bearer |-> tok, error |-> ""]

\* the error makeRequest throws on an answer, "" when it returns the body
apiError(answer) ==
    IF answer = "ok" THEN ""
    ELSE IF answer = "401" THEN "Authentication expired"
    ELSE IF answer = "http500" THEN "API request failed"
    ELSE "fetch"

\* a session of the application left its record in localStorage, or none
ApiInit ==
    /\ svc \in {"sk", "fk"}
    /\ clock = 0
    /\ ls \in {[k \in Keys |-> IF k = STORAGE_KEY THEN v ELSE Absent] :
                  v \in {Absent} \cup {storeTokens(svc, r, 0) :
                                           r \in {t \in TokenResponses : t.kind = "ok"}}}
    /\ ss = [k \in Keys |-> Absent]
    /\ inflight = EmptyBag
    /\ inits = 0
    /\ last = Env
    /\ ui = NoUi
    /\ array = <<>>
    /\ consumers = MaxCalls
    /\ api = NoApi
    /\ callback = NoCallback
    /\ app = NoApp
    /\ player = NoPlayer

\* makeRequest up to the await of fetch in refreshAccessToken (phase
\* "token"), to the await of its own fetch, or to the throw
makeRequest ==
    /\ api.phase \in {"idle", "thrown", "returned"}
    /\ getAccessTokenStart
    /\ api' = IF last'.ret = "pending"
              THEN [phase |-> "token", bearer |-> "", error |-> ""]
              ELSE afterToken(last'.ret)

\* getAccessToken returns after the refresh
makeRequestToken(c, resp, wfail) ==
    /\ api.phase = "token"
    /\ refreshAccessTokenResponse(c, resp, wfail)
    /\ api' = afterToken(last'.ret)

\* the answer of the Web API arrives: on 401 logout() and throw, on another
\* failure throw, else return the body
makeRequestResponse(answer) ==
    LET tokens == getStoredTokens(ls) IN
    /\ api.phase = "sent"
    /\ ls' = IF answer = "401" THEN logoutLs(svc, ls) ELSE ls
    /\ ss' = IF answer = "401" THEN logoutSs(svc, ss) ELSE ss
    /\ api' = [phase |-> IF answer = "ok" THEN "returned" ELSE "thrown",
               bearer |-> "", error |-> apiError(answer)]
    /\ last' = StepOf("makeRequest", IF answer = "ok" THEN "json" ELSE "rejected",
                      IF answer = "ok" THEN "" ELSE answer,
                      BoolStr(isAuthenticated(ls, clock)), NoResp,
                      IF tokens = ParseNull THEN NoRefresh ELSE tokens.refreshToken)
    /\ UNCHANGED <<svc, clock, inflight, inits>>

ApiNext ==
    \/ Tick /\ UNCHANGED <<ui, array, consumers, api, callback, app, player>>
    \/ makeRequest /\ UNCHANGED <<ui, array, consumers, callback, app, player>>
    \/ \E c \in InFlight, o \in Outcomes : makeRequestToken(c, o[1], o[2]) /\ UNCHANGED <<ui, array, consumers, callback, app, player>>
    \/ \E a \in ApiAnswers : makeRequestResponse(a) /\ UNCHANGED <<ui, array, consumers, callback, app, player>>

ApiSpec == ApiInit /\ [][ApiNext]_vars

(* ---------------- AuthCallback and onAuthComplete ---------------- *)
\* callback holds what a mounted AuthCallback has done: the runs of its
\* effect, the timeouts it has pending (a bag of the arguments they will
\* pass), what its handleCallback calls returned ("none": the effect threw
\* before the call) and the arguments onAuthComplete was called with.
\* the browser has loaded "/callback" after an initiateAuth at minute 0,
\* either of whose writes may have failed; the build mounts the component
\* once, or inside React.StrictMode, which runs a mount effect twice
CallbackInit ==
    /\ svc = "sk"
    /\ clock = 0
    /\ \E lf, sf \in BOOLEAN :
          /\ ls = initiateAuthLs([k \in Keys |-> Absent], 0, VerifierStr(1), lf)
          /\ ss = initiateAuthSs([k \in Keys |-> Absent], 0, VerifierStr(1), sf)
    /\ inflight = EmptyBag
    /\ inits = 1
    /\ last = Env
    /\ ui \in {Ui([CLIENT_ID |-> TRUE, CLIENT_SECRET |-> TRUE], "callback", "loading",
                  code, error, state) : code, error \in BOOLEAN, state \in States}
    /\ array = <<>>
    /\ consumers \in {MaxCalls, Consumers}
    /\ api = NoApi
    /\ callback = NoCallback
    /\ app = NoApp
    /\ player = NoPlayer

\* the effect goes on after handleCallback returned ret (or threw before
\* the call, "none"): setTimeout(() => onAuthComplete(success), ...); while
\* the call is pending nothing is scheduled
schedule(cb, ret) ==
    IF ret = "pending" THEN cb
    ELSE [cb EXCEPT !.returns = Append(@, ret),
                    !.timers = @ (+) SetToBag({ret = "true"})]

\* one run of AuthCallback's effect, up to its await or to the catch block
CallbackEffect ==
    /\ ui.page = "callback"
    /\ callback.effects < consumers
    /\ IF callsHandleCallback(ui.code, ui.error)
       THEN /\ handleCallbackStart(ui.state)
            /\ ui' = [ui EXCEPT !.status = IF last'.ret = "false" THEN "error" ELSE @]
            /\ callback' = schedule([callback EXCEPT !.effects = @ + 1], last'.ret)
       ELSE /\ last' = Step("AuthCallback", "error")
            /\ ui' = [ui EXCEPT !.status = "error"]
            /\ callback' = schedule([callback EXCEPT !.effects = @ + 1], "none")
            /\ UNCHANGED <<svc, clock, ls, ss, inflight, inits>>

\* a run of the effect after its await; the runs of a mount are over by
\* then, and the component may be unmounted
CallbackResume(c, resp, wfail) ==
    /\ callback.effects = consumers
    /\ handleCallbackResponse(c, resp, wfail)
    /\ ui' = IF ui.page = "callback"
             THEN [ui EXCEPT !.status = IF last'.ret = "true" THEN "success" ELSE "error"]
             ELSE ui
    /\ callback' = schedule(callback, last'.ret)

\* a timeout fires: onAuthComplete(success), App's handleAuthComplete hides
\* AuthCallback and shows the gallery or the login screen
onAuthComplete(success) ==
    /\ callback.effects = consumers
    /\ BagIn(success, callback.timers)
    /\ callback' = [callback EXCEPT !.timers = @ (-) SetToBag({success}),
                                    !.calls = Append(@, success)]
    /\ ui' = [ui EXCEPT !.page = IF success THEN "gallery" ELSE "login",
                        !.status = "idle"]
    /\ last' = Step("onAuthComplete", BoolStr(success))
    /\ UNCHANGED <<svc, clock, ls, ss, inflight, inits>>

CallbackNext ==
    \/ CallbackEffect /\ UNCHANGED <<array, consumers, api, app, player>>
    \/ \E c \in InFlight, o \in Outcomes : CallbackResume(c, o[1], o[2]) /\ UNCHANGED <<array, consumers, api, app, player>>
    \/ \E b \in BOOLEAN : onAuthComplete(b) /\ UNCHANGED <<array, consumers, api, app, player>>

CallbackSpec == CallbackInit /\ [][CallbackNext]_vars

(* ---------------- useAppState: loading and searching ---------------- *)
MaxLoads == 3          \* loads and searches started per behaviour

\* what the user types into SearchBar
Queries == {"", " ", "a", "b "}

\* String.prototype.trim, for the blank that is typed
RECURSIVE trim(_)
trim(str) ==
    IF Len(str) > 0 /\ SubSeq(str, 1, 1) = " " THEN trim(SubSeq(str, 2, Len(str)))
    ELSE IF Len(str) > 0 /\ SubSeq(str, Len(str), Len(str)) = " "
    THEN trim(SubSeq(str, 1, Len(str) - 1))
    ELSE str

\* a request of the hook suspended at its await
Load(id, kind, query) == [id |-> id, kind |-> kind, query |-> query]

\* the gallery is shown, nothing was loaded yet
AppInit ==
    /\ svc = "sk"
    /\ clock = 0
    /\ ls = [k \in Keys |-> Absent]
    /\ ss = [k \in Keys |-> Absent]
    /\ inflight = EmptyBag
    /\ inits = 0
    /\ last = Env
    /\ ui = NoUi
    /\ array = <<>>
    /\ consumers = MaxCalls
    /\ api = NoApi
    /\ callback = NoCallback
    /\ app = NoApp
    /\ player = NoPlayer

\* loadUserTopTracks up to its await, on the state st
loadUserTopTracksStart(st) ==
    [st EXCEPT !.isLoadingSongs = TRUE, !.error = "",
               !.started = @ + 1,
               !.pending = @ \cup {Load(st.started + 1, "top", "")},
               !.latest = "pending"]

\* searchTracks(query) up to its await, on the state st
searchTracksStart(st, query) ==
    IF trim(query) = "" THEN loadUserTopTracksStart(st)
    ELSE [st EXCEPT !.isLoadingSongs = TRUE, !.error = "", !.searchQuery = query,
                    !.started = @ + 1,
                    !.pending = @ \cup {Load(st.started + 1, "search", query)},
                    !.latest = "pending"]

\* what a request leaves in songs: the tracks, or [] when it failed
tracks(r, ok) == IF ~ok THEN "[]" ELSE IF r.kind = "top" THEN "top" ELSE r.query

\* SearchBar's input changes; it is disabled while isLoading
onChange(q) ==
    /\ ~app.isLoadingSongs
    /\ q # app.query
    /\ app' = [app EXCEPT !.query = q]
    /\ last' = Env

\* SearchBar.handleSubmit: onSearch(query.trim()) for a query that is not
\* blank
handleSubmit ==
    /\ ~app.isLoadingSongs
    /\ trim(app.query) # ""
    /\ app.started < MaxLoads
    /\ app' = searchTracksStart(app, trim(app.query))
    /\ last' = Step("searchTracks", "pending")

\* SearchBar.handleClear, the button shown while there is a query:
\* setQuery(''), then useAppState.clearSearch
handleClear ==
    /\ app.query # ""
    /\ app.started < MaxLoads
    /\ app' = loadUserTopTracksStart([app EXCEPT !.query = "", !.searchQuery = ""])
    /\ last' = Step("clearSearch", "pending")

\* refreshTopTracks: loadUserTopTracks called by the consumer of the hook
refreshTopTracks ==
    /\ app.started < MaxLoads
    /\ app' = loadUserTopTracksStart(app)
    /\ last' = Step("loadUserTopTracks", "pending")

\* the request r comes back, ok or not: the rest of the try block or the
\* catch block, then the finally block
loadResponse(r, ok) ==
    /\ r \in app.pending
    /\ app' = [app EXCEPT !.songs = tracks(r, ok),
                          !.searchQuery = IF ok /\ r.kind = "top" THEN "" ELSE @,
                          !.error = IF ok THEN @
                                    ELSE IF r.kind = "top"
                                    THEN "Failed to load your top tracks"
                                    ELSE "Failed to search tracks",
                          !.isLoadingSongs = FALSE,
                          !.pending = @ \ {r},
                          !.latest = IF r.id = app.started THEN tracks(r, ok) ELSE @]
    /\ last' = Step(IF r.kind = "top" THEN "loadUserTopTracks" ELSE "searchTracks",
                    tracks(r, ok))

AppNext ==
    \/ \E q \in Queries : onChange(q) /\ UNCHANGED <<svc, clock, ls, ss, inflight, inits, ui, array, consumers, api, callback, player>>
    \/ handleSubmit /\ UNCHANGED <<svc, clock, ls, ss, inflight, inits, ui, array, consumers, api, callback, player>>
    \/ handleClear /\ UNCHANGED <<svc, clock, ls, ss, inflight, inits, ui, array, consumers, api, callback, player>>
    \/ refreshTopTracks /\ UNCHANGED <<svc, clock, ls, ss, inflight, inits, ui, array, consumers, api, callback, player>>
    \/ \E r \in app.pending, ok \in BOOLEAN : loadResponse(r, ok) /\ UNCHANGED <<svc, clock, ls, ss, inflight, inits, ui, array, consumers, api, callback, player>>

AppSpec == AppInit /\ [][AppNext]_vars

(* ---------------- useAudioPlayer ---------------- *)
MaxPlays == 3          \* playSong calls per behaviour

\* the songs of the gallery; N has no preview URL
Songs == {"A", "B", "N"}
previewUrl(song) == IF song = "N" THEN "" ELSE song

\* a play() promise that has not settled: the song playSong was called
\* with, and whether it was a new song
Play(id, song, fresh) == [id |-> id, song |-> song, fresh |-> fresh]

AudioInit ==
    /\ svc = "sk"
    /\ clock = 0
    /\ ls = [k \in Keys |-> Absent]
    /\ ss = [k \in Keys |-> Absent]
    /\ inflight = EmptyBag
    /\ inits = 0
    /\ last = Env
    /\ ui = NoUi
    /\ array = <<>>
    /\ consumers = MaxCalls
    /\ api = NoApi
    /\ callback = NoCallback
    /\ app = NoApp
    /\ player = NoPlayer

\* playSong(song)
playSong(song) ==
    /\ player.calls < MaxPlays
    /\ IF previewUrl(song) = ""
       THEN \* alert, return
            /\ player' = [player EXCEPT !.calls = @ + 1]
            /\ last' = Step("playSong", "alert")
       ELSE IF player.currentSong = song
       THEN IF player.isPlaying
            THEN /\ player' = [player EXCEPT !.calls = @ + 1, !.isPlaying = FALSE]
                 /\ last' = Step("playSong", "paused")
            ELSE /\ player' = [player EXCEPT !.calls = @ + 1, !.isPlaying = TRUE,
                                  !.plays = @ \cup {Play(player.calls + 1, song, FALSE)}]
                 /\ last' = Step("playSong", "resumed")
       ELSE \* new song: set the source and play
            /\ player' = [player EXCEPT !.calls = @ + 1, !.started = @ + 1,
                             !.src = previewUrl(song),
                             !.plays = @ \cup {Play(player.calls + 1, song, TRUE)},
                             !.currentSong = song, !.isPlaying = TRUE]
            /\ last' = Step("playSong", song)

\* a play() promise is fulfilled: nothing is chained to it
playFulfilled(p) ==
    /\ p \in player.plays
    /\ player' = [player EXCEPT !.plays = @ \ {p}]
    /\ last' = Step("play", "fulfilled")

\* a play() promise is rejected: the catch handler of the playSong call
\* that started it
playRejected(p) ==
    /\ p \in player.plays
    /\ player' = [player EXCEPT !.plays = @ \ {p},
                     !.currentSong = IF p.fresh THEN p.song ELSE @,
                     !.isPlaying = FALSE]
    /\ last' = Step("play", "rejected")

\* pauseSong()
pauseSong ==
    /\ player.src # ""
    /\ player' = [player EXCEPT !.isPlaying = FALSE]
    /\ last' = Step("pauseSong", "void")

\* the audio element fires ended or error: handleEnded, handleError
handleEnded ==
    /\ player.src # ""
    /\ player.isPlaying
    /\ player' = [player EXCEPT !.isPlaying = FALSE]
    /\ last' = Env

AudioNext ==
    \/ \E s \in Songs : playSong(s) /\ UNCHANGED <<svc, clock, ls, ss, inflight, inits, ui, array, consumers, api, callback, app>>
    \/ \E p \in player.plays : playFulfilled(p) /\ UNCHANGED <<svc, clock, ls, ss, inflight, inits, ui, array, consumers, api, callback, app>>
    \/ \E p \in player.plays : playRejected(p) /\ UNCHANGED <<svc, clock, ls, ss, inflight, inits, ui, array, consumers, api, callback, app>>
    \/ pauseSong /\ UNCHANGED <<svc, clock, ls, ss, inflight, inits, ui, array, consumers, api, callback, app>>
    \/ handleEnded /\ UNCHANGED <<svc, clock, ls, ss, inflight, inits, ui, array, consumers, api, callback, app>>

AudioSpec == AudioInit /\ [][AudioNext]_vars

(* ======================= properties ======================= *)
\* C1: isAuthenticated() returns true exactly when localStorage holds a token
\* record that parses and whose expiresAt is strictly greater than Date.now();
\* no record, an unparsable record and now = expiresAt all give false.
C1_IsAuthenticatedIff ==
    [][(last'.op = "isAuthenticated" /\ IsAuthenticated)
          => (last'.ret = "true" <=>
                 (/\ ls[STORAGE_KEY].t = "tokens"
                  /\ ls[STORAGE_KEY].expiresAt > Now(clock)))]_vars

\* isAuthenticated() answered false on a record with expiresAt = now
C1_Witness ==
    /\ last.op = "isAuthenticated"
    /\ last.ret = "false"
    /\ ls[STORAGE_KEY].t = "tokens"
    /\ ls[STORAGE_KEY].expiresAt = Now(clock)

\* C2: a handleCallback that finds no verifier for its correlation (no state
\* parameter, or nothing under the key in any backend it reads) returns false,
\* sends no request and leaves the token record slot as it was.
C2_MissingVerifier ==
    [][(/\ last'.op = "handleCallback"
        /\ \/ \E u \in States :
                 /\ u = "" \/ (ls[u] = Absent /\ ss[u] = Absent)
                 /\ handleCallbackStart(u)
           \/ /\ ss[CODE_VERIFIER_KEY] = Absent
              /\ handleCallbackStartFk)
       => /\ last'.ret = "false"
          /\ inflight' = inflight
          /\ ls'[STORAGE_KEY] = ls[STORAGE_KEY]]_vars

\* handleCallback returned false because no verifier was stored
C2_Witness ==
    /\ last.op = "handleCallback"
    /\ last.fault = "verifier"
    /\ last.ret = "false"

\* C3: when handleCallback has returned true the token record of the response
\* is in storage; if the response's expires_in exceeds the safety buffer, an
\* isAuthenticated() that follows immediately is true and a getAccessToken()
\* that follows immediately returns the response's access_token and sends
\* nothing.
C3_TrueAfterStore ==
    [][(last.op = "handleCallback" /\ last.ret = "true") =>
        /\ ls[STORAGE_KEY].t = "tokens"
        /\ ls[STORAGE_KEY].accessToken = last.resp.access_token
        /\ last.resp.expires_in > Buffer(svc) =>
            /\ IsAuthenticated => last'.ret = "true"
            /\ getAccessTokenStart =>
                /\ last'.ret = last.resp.access_token
                /\ inflight' = inflight]_vars

\* handleCallback returned true for a response with expires_in > buffer
C3_Witness ==
    /\ last.op = "handleCallback"
    /\ last.ret = "true"
    /\ last.resp.expires_in > Buffer(svc)

\* C4: handleCallback never rejects; on every internal failure (state missing,
\* verifier missing, rejected request, non-2xx response, unparsable body,
\* failing storage write) it resolves to false.
C4_NeverRejects ==
    last.op = "handleCallback" =>
        /\ last.ret \in {"pending", "true", "false"}
        /\ last.fault # "" => last.ret = "false"

\* handleCallback resolved to false after storeTokens threw
C4_Witness ==
    /\ last.op = "handleCallback"
    /\ last.fault = "write"
    /\ last.ret = "false"

\* C5: one key scheme and one backend: the code_verifier a handleCallback
\* sends for correlation K is the verifier of the initiateAuth that stored
\* under K last, read from where that initiateAuth wrote it. (Verifiers are
\* numbered in the order of the attempts.)
C5_OneBackend ==
    [][(svc = "sk" /\ last'.op = "handleCallback" /\ last'.ret = "pending") =>
          \A c \in BagToSet(inflight') :
              (/\ inflight' = inflight (+) SetToBag({c})
               /\ startsWith(c.u, CV_PREFIX))
              => \A store \in {ls, ss} :
                    store[c.u].t = "verifier" => c.v.v >= store[c.u].v]_vars

\* C6: logout() immediately followed by isAuthenticated() yields false,
\* whatever the state logout() ran in.
C6_LogoutThenNotAuthenticated ==
    [][(last.op = "logout" /\ IsAuthenticated) => last'.ret = "false"]_vars

\* logout() ran on an authenticated session
C6_Witness ==
    /\ last.op = "logout"
    /\ last.was = "true"

\* C7: on an unexpired token record getAccessToken() returns the stored
\* accessToken, sends no request and leaves storage unchanged; so it does
\* right after an isAuthenticated() that returned true.
C7_ValidTokenFastPath ==
    [][(last'.op = "getAccessToken" /\ getAccessTokenStart) =>
        /\ (/\ ls[STORAGE_KEY].t = "tokens"
            /\ ls[STORAGE_KEY].expiresAt > Now(clock))
              => /\ last'.ret = ls[STORAGE_KEY].accessToken
                 /\ inflight' = inflight
                 /\ ls' = ls
                 /\ ss' = ss
        /\ (last.op = "isAuthenticated" /\ last.ret = "true")
              => /\ last'.ret = ls[STORAGE_KEY].accessToken
                 /\ inflight' = inflight]_vars

\* getAccessToken() returned the stored token of an unexpired record
C7_Witness ==
    /\ last.op = "getAccessToken"
    /\ last.resp = NoResp
    /\ last.ret \in AccessTokens
    /\ ls[STORAGE_KEY].t = "tokens"
    /\ ls[STORAGE_KEY].expiresAt > Now(clock)

C9_RefreshFailureLogsOut ==
    (last.op = "getAccessToken" /\ last.resp.kind \in {"reject", "http400", "badjson"}) =>
        /\ last.ret = "null"
        /\ ls[STORAGE_KEY] = Absent
        /\ svc = "fk" => ss[CODE_VERIFIER_KEY] = Absent
        /\ svc = "sk" => \A k \in Keys : startsWith(k, CV_PREFIX) =>
                                            (ls[k] = Absent /\ ss[k] = Absent)

\* a refresh answered with HTTP 400 made getAccessToken() return null
C9_Witness ==
    /\ last.op = "getAccessToken"
    /\ last.resp.kind = "http400"
    /\ last.ret = "null"

\* C10: the record a successful refresh writes holds the response's
\* refresh_token when there is one and the refresh token sent otherwise, so
\* it always holds one.
C10_RefreshTokenKept ==
    (last.op = "getAccessToken" /\ last.resp.kind = "ok" /\ last.fault = "") =>
        /\ ls[STORAGE_KEY].t = "tokens"
        /\ ls[STORAGE_KEY].refreshToken =
              (IF last.resp.refresh_token # NoRefresh
               THEN last.resp.refresh_token ELSE last.rt)
        /\ ls[STORAGE_KEY].refreshToken # NoRefresh

\* a refresh whose response carried no refresh_token kept the old one
C10_Witness ==
    /\ last.op = "getAccessToken"
    /\ last.resp.kind = "ok"
    /\ last.fault = ""
    /\ last.resp.refresh_token = NoRefresh
    /\ ls[STORAGE_KEY].t = "tokens"
    /\ ls[STORAGE_KEY].refreshToken = last.rt

\* C11: getAccessToken() on an expired token record that holds no refresh
\* token returns null, sends no request and clears the token record, so that
\* no token record is present afterwards.
C11_ClearOnDeadEnd ==
    [][(/\ last'.op = "getAccessToken"
        /\ getAccessTokenStart
        /\ ls[STORAGE_KEY].t = "tokens"
        /\ ls[STORAGE_KEY].expiresAt <= Now(clock)
        /\ ls[STORAGE_KEY].refreshToken = NoRefresh)
       => /\ last'.ret = "null"
          /\ inflight' = inflight
          /\ ls'[STORAGE_KEY] = Absent]_vars

\* C12: a token record written from a response whose expires_in exceeds the
\* buffer makes isAuthenticated() return true right after the write, and
\* isAuthenticated() returns false at every clock value at or past the
\* expiresAt of the record in storage.
C12_ExpiryWindow ==
    [][last'.op = "isAuthenticated"
       => /\ (/\ last.resp.kind = "ok"
              /\ last.fault = ""
              /\ last.resp.expires_in > Buffer(svc)) => last'.ret = "true"
          /\ (/\ ls[STORAGE_KEY].t = "tokens"
              /\ Now(clock) >= ls[STORAGE_KEY].expiresAt) => last'.ret = "false"]_vars

\* isAuthenticated() has answered false at the very instant a written
\* record expires
C12_Witness ==
    /\ last.op = "isAuthenticated"
    /\ last.ret = "false"
    /\ ls[STORAGE_KEY].t = "tokens"
    /\ ls[STORAGE_KEY].expiresAt = Now(clock)
    /\ clock > 0

\* C13: every token record written, by the code exchange or by a refresh,
\* has expiresAt = clock at the write + expires_in * 1000 - B * 1000, where B
\* is the one buffer of the running revision, between 0 and 60 seconds, and
\* is the same for both writers.
C13_ExpiresAtFormula ==
    /\ Buffer(svc) \in 0..60
    /\ (/\ last.op \in {"handleCallback", "getAccessToken"}
        /\ last.resp.kind = "ok"
        /\ last.fault = "")
       => /\ ls[STORAGE_KEY].t = "tokens"
          /\ ls[STORAGE_KEY].expiresAt =
                Now(clock) + last.resp.expires_in * 1000 - Buffer(svc) * 1000

\* a refresh has written a record at a later clock value in the revision
\* whose buffer is not zero
C13_Witness ==
    /\ last.op = "getAccessToken"
    /\ last.resp.kind = "ok"
    /\ last.fault = ""
    /\ Buffer(svc) > 0
    /\ clock > 0
    /\ ls[STORAGE_KEY].t = "tokens"
    /\ ls[STORAGE_KEY].expiresAt = Now(clock) + (last.resp.expires_in - 60) * 1000

\* C14: once a handleCallback call has returned, true or false (state
\* parameter missing, verifier not found and exchange failed included), the
\* pending marker written by the one initiateAuth that preceded it is in
\* neither localStorage nor sessionStorage.
C14_MarkerGoneAfterCallback ==
    (/\ last.op = "handleCallback"
     /\ last.ret \in {"true", "false"}
     /\ inits = 1)
    => \A k \in Keys \ {STORAGE_KEY} : ls[k] = Absent /\ ss[k] = Absent

\* C15: after a handleCallback call whose code exchange failed (the request
\* was rejected or answered with a non-2xx status), isAuthenticated() is
\* false, whether or not a valid token record was stored before the call.
C15_FailedExchangeUnauthenticated ==
    (/\ last.op = "handleCallback"
     /\ last.fault \in {"network", "status"})
    => ~isAuthenticated(ls, clock)

\* C16: when logout() has returned no pending marker is left: every key
\* with the correlation prefix, the markers of abandoned attempts included,
\* and the fixed verifier key are absent from localStorage and from
\* sessionStorage.
C16_LogoutClearsMarkers ==
    last.op = "logout"
    => \A k \in Keys \ {STORAGE_KEY} : ls[k] = Absent /\ ss[k] = Absent

\* logout() has returned after a second sign-in attempt, while a
\* handleCallback that found its marker in storage is still waiting for the
\* token endpoint: that marker is gone from both storages
C16_Witness ==
    /\ last.op = "logout"
    /\ inits = 2
    /\ \E c \in InFlight :
          /\ c.op = "handleCallback"
          /\ c.v.t = "verifier"
          /\ c.u # ""
          /\ ls[c.u] = Absent
          /\ ss[c.u] = Absent

\* C17: a failure inside initiateAuth (the random source or the digest
\* failing, or the verifier's storage write failing) is caught inside the
\* method: the promise initiateAuth returns is never rejected.
C17_InitiateAuthNeverRejects ==
    last.op = "initiateAuth" => last.ret # "rejected"

\* C18: while the callback route shows a URL that has an error parameter or
\* has no code, AuthCallback does not call handleCallback: no step is a
\* handleCallback step, no token request is in flight and the token record
\* stays as it was.
C18_NoExchangeWithoutCode ==
    [][(ui'.page = "callback" /\ (ui'.error \/ ~ui'.code))
       => /\ last'.op # "handleCallback"
          /\ inflight' = EmptyBag
          /\ ui.page = "callback" => ls'[STORAGE_KEY] = ls[STORAGE_KEY]]_vars

\* AuthCallback's effect has ended in the error view on a URL that has an
\* error parameter next to a code and a state whose marker is stored
C18_Witness ==
    /\ last.op = "AuthCallback"
    /\ ui.status = "error"
    /\ ui.error
    /\ ui.code
    /\ ui.state # ""
    /\ ls[ui.state].t = "verifier"

\* C19: in a build whose validateSpotifyConfig() is false nothing reaches
\* the network: no action of the user sends the browser to the
\* authorization endpoint through initiateAuth, and no token request is sent.
C19_NoNetworkWithoutConfig ==
    ~validateSpotifyConfig(ui.config)
    => /\ ui.page # "provider"
       /\ InFlight = {}

\* C20: every verifier generateCodeVerifier returns is the unpadded base64url
\* encoding of its 32 random bytes: exactly 43 characters, each of them one
\* of A-Z, a-z, 0-9, "-" and "_", none of them "+", "/" or "=".
C20_VerifierShape ==
    last.op = "generateCodeVerifier"
    => /\ Len(last.ret) = 43
       /\ \A i \in 1..Len(last.ret) :
             /\ last.ret[i] \notin {"+", "/", "="}
             /\ \/ last.ret[i] \in {"-", "_"}
                \/ \E n \in 1..62 : last.ret[i] = Base64Chars[n]

\* a verifier has been returned for bytes whose plain base64 encoding holds
\* "+" and "/": it has "-" and "_" in their places
C20_Witness ==
    /\ last.op = "generateCodeVerifier"
    /\ \E i \in 1..Len(btoa(array)) : btoa(array)[i] = "+" /\ last.ret[i] = "-"
    /\ \E i \in 1..Len(btoa(array)) : btoa(array)[i] = "/" /\ last.ret[i] = "_"
    /\ btoa(array)[Len(btoa(array))] = "="

\* C21: in every reachable state at most one pending verifier marker is
\* live in storage (a key other than the token record's that holds a value
\* in localStorage or in sessionStorage), also after several initiateAuth
\* calls with no callback or logout between them.
C21_OneMarker ==
    Cardinality({k \in Keys \ {STORAGE_KEY} : ls[k] # Absent \/ ss[k] # Absent}) <= 1

\* C22: when a handleCallback call has returned true, storage holds no
\* correlation marker at all: the verifier used for the exchange and the
\* markers of earlier abandoned attempts are gone from both storages.
C22_NoMarkerAfterSuccess ==
    (last.op = "handleCallback" /\ last.ret = "true")
    => \A k \in Keys \ {STORAGE_KEY} : ls[k] = Absent /\ ss[k] = Absent

\* C23: a stored verifier is never reused: no verifier is the code_verifier
\* of more than one token request, also when handleCallback is invoked a
\* second time for the same callback URL before the first exchange has
\* completed.
C23_VerifierSentOnce ==
    \A c, d \in InFlight :
        (/\ c.op = "handleCallback"
         /\ d.op = "handleCallback"
         /\ c.v.t = "verifier"
         /\ c.v = d.v)
        => (c = d /\ CopiesIn(c, inflight) = 1)

\* C24: refreshes are not coalesced: a getAccessToken() call that finds an
\* expired record with a refresh token sends its own refresh request with
\* that refresh token, whatever is already in flight; and the record in
\* storage after a successful refresh response is the one written from that
\* response, so that of two successful refreshes the one handled last stays.
C24_NoCoalescing ==
    [][last'.op = "getAccessToken"
       => /\ (/\ last'.resp.kind = "none"
              /\ ls[STORAGE_KEY].t = "tokens"
              /\ ls[STORAGE_KEY].expiresAt <= Now(clock)
              /\ ls[STORAGE_KEY].refreshToken # NoRefresh)
             => /\ last'.ret = "pending"
                /\ inflight' = inflight (+)
                      SetToBag({Call("getAccessToken", Absent,
                                     ls[STORAGE_KEY].refreshToken, "")})
          /\ (last'.resp.kind = "ok" /\ last'.fault = "")
             => /\ ls'[STORAGE_KEY].t = "tokens"
                /\ ls'[STORAGE_KEY].accessToken = last'.resp.access_token
                /\ ls'[STORAGE_KEY].expiresAt =
                      Now(clock) + (last'.resp.expires_in - Buffer(svc)) * 1000
                /\ ls'[STORAGE_KEY].refreshToken =
                      IF last'.resp.refresh_token # NoRefresh
                      THEN last'.resp.refresh_token ELSE last'.rt]_vars

\* two getAccessToken() calls sent the same refresh token; the first
\* response has been handled and has written a record with a rotated
\* refresh token, the second request is still in flight
C24_Witness ==
    /\ last.op = "getAccessToken"
    /\ last.resp.kind = "ok"
    /\ last.fault = ""
    /\ ls[STORAGE_KEY].t = "tokens"
    /\ ls[STORAGE_KEY].accessToken = last.resp.access_token
    /\ ls[STORAGE_KEY].refreshToken # last.rt
    /\ \E c \in InFlight : c.op = "getAccessToken" /\ c.rt = last.rt

\* C25: when two concurrent getAccessToken() calls refreshed the same
\* expired record and the response to one is a success and the response to
\* the other a failure, the record written by the successful refresh is
\* still in storage after both responses were handled (here: the success
\* handled first, the failure right after it).
C25_SuccessSurvivesFailure ==
    [][(/\ last.op = "getAccessToken"
        /\ last.resp.kind = "ok"
        /\ last.fault = ""
        /\ last'.op = "getAccessToken"
        /\ last'.resp.kind # "none"
        /\ last'.fault # ""
        /\ last'.rt = last.rt)
       => /\ ls'[STORAGE_KEY].t = "tokens"
          /\ ls'[STORAGE_KEY] = ls[STORAGE_KEY]]_vars

\* C26: once logout() has returned, a token exchange or a refresh that was
\* in flight when logout() ran does not write a token record when its
\* response arrives: while no handleCallback call has started since, the
\* token record stays absent.
C26_NoRecordAfterLogout ==
    [][(/\ ls[STORAGE_KEY] = Absent
        /\ last.op = "logout"
        /\ last'.resp.kind # "none")
       => ls'[STORAGE_KEY] = Absent]_vars

\* C27: in the state-keyed service handleCallback reads and removes only
\* pending verifier markers: whatever the state parameter of the callback
\* URL is, the token record's storage key included, no handleCallback step
\* removes a token record that was there, and no token request carries
\* anything but a stored verifier as its code_verifier.
C27_OnlyMarkersTouched ==
    [][(svc = "sk" /\ last'.op = "handleCallback")
       => /\ ls[STORAGE_KEY] # Absent => ls'[STORAGE_KEY] # Absent
          /\ \A c \in BagToSet(inflight') :
                c.op = "handleCallback" => c.v.t = "verifier"]_vars

\* C28 as stated: initiateAuth does not read, modify or remove the token
\* record: the record is the same after every step of an initiateAuth call
\* as before it, whether or not the initiation completes.
C28_AsStated ==
    [][(last'.op = "initiateAuth" /\ ls[STORAGE_KEY].t = "tokens")
       => ls'[STORAGE_KEY] = ls[STORAGE_KEY]]_vars

\* C28 amended: in the state-keyed service initiateAuth leaves the token
\* record as it was, whether or not the initiation completes; in the
\* fixed-key revision initiateAuth begins by removing the token record and
\* does not touch it again when it resumes.
C28_InitiateAuthFrame ==
    [][last'.op = "initiateAuth"
       => /\ svc = "sk" => ls'[STORAGE_KEY] = ls[STORAGE_KEY]
          /\ (svc = "fk" /\ last'.ret = "pending") => ls'[STORAGE_KEY] = Absent
          /\ (svc = "fk" /\ last'.ret # "pending") => ls'[STORAGE_KEY] = ls[STORAGE_KEY]]_vars

\* the state-keyed initiateAuth has returned with a token record in storage
C28_Witness ==
    /\ svc = "sk"
    /\ last.op = "initiateAuth"
    /\ ls[STORAGE_KEY].t = "tokens"

\* C29: in the state-keyed service the flows of initiateAuth calls made at
\* distinct clock values do not disturb each other: an initiateAuth call
\* leaves the markers stored at every other clock value as they were, a
\* handleCallback call sends the verifier stored under the state it was
\* given, and a handleCallback call that returns changes no marker but the
\* one under its own state; so each callback finds its own verifier and
\* exchanges it, in either arrival order.
C29_FlowsIndependent ==
    [][svc = "sk"
       => /\ last'.op = "initiateAuth"
             => \A t \in 0..MaxClock :
                   t # clock => /\ ls'[cvKey(t)] = ls[cvKey(t)]
                                /\ ss'[cvKey(t)] = ss[cvKey(t)]
          /\ (last'.op = "handleCallback" /\ last'.ret = "pending")
             => /\ UNCHANGED <<ls, ss>>
                /\ \E c \in BagToSet(inflight') :
                      /\ inflight' = inflight (+) SetToBag({c})
                      /\ c.op = "handleCallback"
                      /\ c.u # ""
                      /\ c.v.t = "verifier" => c.v \in {ls[c.u], ss[c.u]}
          /\ (last'.op = "handleCallback" /\ last'.resp.kind # "none")
             => \E c \in InFlight :
                   /\ inflight' = inflight (-) SetToBag({c})
                   /\ \A t \in 0..MaxClock :
                         cvKey(t) # c.u => /\ ls'[cvKey(t)] = ls[cvKey(t)]
                                           /\ ss'[cvKey(t)] = ss[cvKey(t)]]_vars

\* two flows were initiated at distinct clock values before any callback;
\* the callback of the first has exchanged the first verifier and returned
\* true, and the marker of the second, holding the second verifier, is
\* still stored
C29_Witness ==
    /\ svc = "sk"
    /\ last.op = "handleCallback"
    /\ last.ret = "true"
    /\ ls[cvKey(0)] = Absent
    /\ ss[cvKey(0)] = Absent
    /\ ls[cvKey(1)] = VerifierStr(2)
    /\ ss[cvKey(1)] = VerifierStr(2)

\* C30: token requests are never retried: a step of handleCallback or of
\* getAccessToken that starts a call sends at most one request, and the
\* step that handles a response, failed or not, ends the call without
\* sending another request.
C30_NoRetry ==
    [][last'.op \in {"handleCallback", "getAccessToken"}
       => IF last'.resp.kind = "none"
          THEN \/ inflight' = inflight
               \/ /\ last'.ret = "pending"
                  /\ BagCardinality(inflight') = BagCardinality(inflight) + 1
          ELSE /\ last'.ret # "pending"
               /\ BagCardinality(inflight') = BagCardinality(inflight) - 1
               /\ \A c \in BagToSet(inflight') :
                     CopiesIn(c, inflight') <= CopiesIn(c, inflight)]_vars

\* a token exchange has failed at the network and the call has returned
\* false with no request left in flight
C30_Witness ==
    /\ last.op = "handleCallback"
    /\ last.fault = "network"
    /\ last.ret = "false"
    /\ InFlight = {}

\* C31: whenever initiateAuth has navigated to the authorization URL, the
\* verifier whose challenge the URL carries is stored under the correlation
\* the URL carries: under the key equal to the state parameter in the
\* state-keyed service, under the fixed key otherwise.
C31_PersistedBeforeNavigation ==
    (last.op = "initiateAuth" /\ last.ret = "void")
    => IF svc = "sk"
       THEN VerifierStr(inits) \in {ls[cvKey(clock)], ss[cvKey(clock)]}
       ELSE ss[CODE_VERIFIER_KEY].t = "verifier"

\* C32: isAuthenticated() is a pure read: whatever storage holds, a token
\* record that cannot be parsed included, it sends no request and leaves
\* localStorage and sessionStorage as they were.
C32_PureRead ==
    [][last'.op = "isAuthenticated"
       => /\ ls' = ls
          /\ ss' = ss
          /\ inflight' = inflight]_vars

\* C33: the token record is written only on a successful response of the
\* token endpoint to a code exchange or to a refresh: every step that puts
\* a token record into storage, or changes the one there, is the handling
\* of a 2xx response by handleCallback or by getAccessToken.
C33_WrittenOnSuccessOnly ==
    [][(ls'[STORAGE_KEY] # ls[STORAGE_KEY] /\ ls'[STORAGE_KEY] # Absent)
       => /\ last'.op \in {"handleCallback", "getAccessToken"}
          /\ last'.resp.kind = "ok"
          /\ last'.fault = ""
          /\ ls'[STORAGE_KEY].t = "tokens"]_vars

\* after initiateAuth and an exchange answered with an error status there
\* is still no token record
C33_Witness ==
    /\ last.op = "handleCallback"
    /\ last.fault = "status"
    /\ last.ret = "false"
    /\ ls[STORAGE_KEY] = Absent

\* C34: every request makeRequest sends follows a getAccessToken() call that
\* returned a token, and carries that token as its bearer token; when
\* getAccessToken() returns null makeRequest throws and sends nothing
C34_RequestCarriesToken ==
    [][/\ (api'.phase = "sent" /\ api.phase # "sent")
          => /\ last'.op = "getAccessToken"
             /\ last'.ret \in AccessTokens
             /\ api'.bearer = last'.ret
       /\ (last'.op = "getAccessToken" /\ last'.ret = "null")
          => /\ api'.phase = "thrown"
             /\ api'.error = "No valid access token available"]_vars

\* a request sent with the token a refresh just returned
C34_Witness ==
    /\ api.phase = "sent"
    /\ last.op = "getAccessToken" /\ last.resp.kind = "ok"
    /\ api.bearer = last.resp.access_token

C36_CalledOnce ==
    /\ Len(callback.calls) <= 1
    /\ \A i \in 1..Len(callback.calls) :
          callback.calls[i] <=>
             /\ \E j \in 1..Len(callback.returns) : callback.returns[j] = "true"
             /\ \A j \in 1..Len(callback.returns) : callback.returns[j] = "true"

\* C37: isLoadingSongs is true in every state in which a loadUserTopTracks
\* or searchTracks request is in flight, also when a second one was started
\* before the first has finished.
C37_LoadingWhileInFlight == app.pending # {} => app.isLoadingSongs

\* C38: once no load or search is in flight, songs holds the result of the
\* request started last and agrees with searchQuery (top tracks, or nothing
\* after a failure, when searchQuery is empty; the tracks found for
\* searchQuery otherwise).
C38_LatestWins ==
    (app.pending = {} /\ app.started > 0)
    => /\ app.songs = app.latest
       /\ app.songs \in {IF app.searchQuery = "" THEN "top" ELSE app.searchQuery, "[]"}

\* C39: after playSong(A) and then playSong(B) for another song B with a
\* preview URL, currentSong is B until playSong is called for another song,
\* also when the play() promise of A is rejected after B was started: once
\* two songs were started, currentSong is the song whose preview is the
\* source of the audio element.
C39_CurrentSongIsLastStarted ==
    player.started >= 2 => previewUrl(player.currentSong) = player.src
====
